---- MODULE Spec2Model ----
(***************************************************************************)
(* The calculator engine of the three variants of the repository:          *)
(*   A = src/src/App.tsx, B = src/unnamed/part_000, C = src/unnamed/part_001*)
(* Strings are sequences of one-character strings.  A JavaScript number is *)
(* NaN, an infinity, or a finite IEEE 754 double held as a sign, a 53-bit   *)
(* mantissa and a binary exponent; every operation rounds its exact result *)
(* to the nearest double, a tie to the even mantissa.                      *)
(***************************************************************************)
EXTENDS Integers, Sequences, FiniteSets, TLC

\* ------------------------------------------------------------------------
\* Bounds of the model
\* ------------------------------------------------------------------------
\* number of input events explored from the initial state
MaxSteps == 5

\* ------------------------------------------------------------------------
\* Characters and strings
\* ------------------------------------------------------------------------
DigitChars == <<"0", "1", "2", "3", "4", "5", "6", "7", "8", "9">>

IsDigit(c) == \E i \in 1..10 : DigitChars[i] = c

DigitVal(c) == CHOOSE d \in 0..9 : DigitChars[d + 1] = c

Max(a, b) == IF a >= b THEN a ELSE b

Min(a, b) == IF a <= b THEN a ELSE b

\* s.slice(0, n) for 0 <= n
Take(s, n) == SubSeq(s, 1, Min(n, Len(s)))

\* s.slice(n) for 0 <= n
Drop(s, n) == SubSeq(s, n + 1, Len(s))

\* s.includes(c) for a one-character c
Includes(s, c) == \E i \in 1..Len(s) : s[i] = c

\* does t occur in s at position i
StartsWithAt(s, t, i) ==
  /\ i + Len(t) - 1 <= Len(s)
  /\ \A j \in 1..Len(t) : s[i + j - 1] = t[j]

Zeros(n) == [i \in 1..n |-> 0]

\* the largest and the smallest element of a non-empty set of integers
MaxOf(S) == CHOOSE i \in S : \A j \in S : j <= i

MinOf(S) == CHOOSE i \in S : \A j \in S : i <= j

\* const x = e; Body(x): e is evaluated once, before Body(x) is
Bind(e, Body(_)) == IF e = e THEN Body(e) ELSE Body(e)

\* ------------------------------------------------------------------------
\* Natural numbers of any size: little-endian sequences of limbs below
\* LimbBase without high zero limbs (the integers of TLC have 32 bits)
\* ------------------------------------------------------------------------
LimbBase == 100 * 100

\* a without its high zero limbs
BTrim(a) ==
  Bind({i \in 1..Len(a) : a[i] # 0},
       LAMBDA used : IF used = {} THEN <<>> ELSE SubSeq(a, 1, MaxOf(used)))

BLimb(a, i) == IF 1 <= i /\ i <= Len(a) THEN a[i] ELSE 0

\* the limbs f[1] .. f[n] as a sequence held by its elements
Limbs(f, n) == SubSeq(f, 1, n)

\* does a carry enter limb i of the limbs s, each at most 2 * LimbBase - 2:
\* a limb below i overflows and every limb between them is LimbBase - 1
CarryInto(s, i) ==
  \E j \in 1..(i - 1) :
    s[j] >= LimbBase /\ \A l \in (j + 1)..(i - 1) : s[l] = LimbBase - 1

\* the number whose limbs before carrying are s, each at most 2 * LimbBase - 2
BCarry(s) ==
  IF s = <<>> THEN <<>>
  ELSE
  BTrim([i \in 1..(Len(s) + 1) |->
          (BLimb(s, i) + (IF CarryInto(s, i) THEN 1 ELSE 0)) % LimbBase])

\* the same number as v with every limb's overflow moved one limb up
BReduce(v) ==
  Limbs([i \in 1..(Len(v) + 1) |->
          (BLimb(v, i) % LimbBase) + (BLimb(v, i - 1) \div LimbBase)],
        Len(v) + 1)

BAdd(a, b) ==
  IF a = <<>> THEN b
  ELSE IF b = <<>> THEN a
  ELSE BCarry(Limbs([i \in 1..Max(Len(a), Len(b)) |-> BLimb(a, i) + BLimb(b, i)],
                    Max(Len(a), Len(b))))

\* does limb i of a - b borrow from the limb above: a limb of a below i is
\* less than b's and the limbs between them are equal
BorrowInto(a, b, i) ==
  \E j \in 1..(i - 1) :
    a[j] < BLimb(b, j) /\ \A l \in (j + 1)..(i - 1) : a[l] = BLimb(b, l)

\* a - b for a >= b
BSub(a, b) ==
  IF b = <<>> THEN a
  ELSE IF a = b THEN <<>>
  ELSE
  BTrim([i \in 1..Len(a) |->
          (a[i] - BLimb(b, i) - (IF BorrowInto(a, b, i) THEN 1 ELSE 0) + LimbBase)
            % LimbBase])

\* -1, 0 or 1 as a < b, a = b or a > b
BCmp(a, b) ==
  IF Len(a) < Len(b) THEN -1
  ELSE IF Len(a) > Len(b) THEN 1
  ELSE Bind({i \in 1..Len(a) : a[i] # b[i]}, LAMBDA diff :
         IF diff = {} THEN 0
         ELSE Bind(MaxOf(diff), LAMBDA top : IF a[top] < b[top] THEN -1 ELSE 1))

\* a * k for 0 <= k < LimbBase
BMulSmall(a, k) ==
  IF k = 0 \/ a = <<>> THEN <<>>
  ELSE BCarry(BReduce(Limbs([i \in 1..Len(a) |-> a[i] * k], Len(a))))

\* a * LimbBase^n
BShift(a, n) == IF a = <<>> THEN <<>> ELSE Zeros(n) \o a

\* a * 2^n
RECURSIVE BShl(_, _)
BShl(a, n) ==
  IF a = <<>> THEN <<>>
  ELSE IF n <= 13 THEN BMulSmall(a, 2 ^ n)
  ELSE BShl(BMulSmall(a, 2 ^ 13), n - 13)

\* the sum over j = 1 .. n of the low limbs (hi = 0) or of the high limbs
\* (hi = 1) of the products a[c + 1 - j] * b[j], which make up column c
RECURSIVE ColumnSum(_, _, _, _, _)
ColumnSum(a, b, c, n, hi) ==
  IF n = 0 THEN 0
  ELSE (IF hi = 1 THEN (BLimb(a, c + 1 - n) * b[n]) \div LimbBase
        ELSE (BLimb(a, c + 1 - n) * b[n]) % LimbBase)
       + ColumnSum(a, b, c, n - 1, hi)

\* a * b by the columns of the long multiplication, b the shorter factor
BMulColumns(a, b) ==
  BCarry(BReduce(BReduce(Limbs(
    [c \in 1..(Len(a) + Len(b)) |->
       ColumnSum(a, b, c, Len(b), 0) + ColumnSum(a, b, c - 1, Len(b), 1)],
    Len(a) + Len(b)))))

BMul(a, b) ==
  CASE a = <<>> \/ b = <<>> -> <<>>
    [] Len(a) < Len(b) -> BMulColumns(b, a)
    [] OTHER -> BMulColumns(a, b)

\* the largest k in lo..hi with k * d <= r, given lo * d <= r
RECURSIVE BSearch(_, _, _, _)
BSearch(r, d, lo, hi) ==
  IF lo = hi THEN lo
  ELSE IF BCmp(BMulSmall(d, (lo + hi + 1) \div 2), r) <= 0
       THEN BSearch(r, d, (lo + hi + 1) \div 2, hi)
       ELSE BSearch(r, d, lo, (lo + hi + 1) \div 2 - 1)

\* the limbs of r from limb n on as one integer, for Len(r) <= n + 1
TopLimbs(r, n) == IF Len(r) > n THEN r[n + 1] * LimbBase + r[n] ELSE r[n]

\* the limb of the quotient of r by d, for r < d * LimbBase
BQuotLimb(r, d) ==
  IF BCmp(r, d) < 0 THEN 0
  ELSE BSearch(r, d, TopLimbs(r, Len(d)) \div (d[Len(d)] + 1),
               Min(LimbBase - 1, TopLimbs(r, Len(d)) \div d[Len(d)]))

\* one step of the long division of n by d # 0: st = <<i, r, q>> with limb i
\* of n the next to bring down, r the remainder and q the limbs of the
\* quotient found so far
BDivStep(n, d, st, r1) ==
  Bind(BQuotLimb(r1, d), LAMBDA k :
    <<st[1] - 1, BSub(r1, BMulSmall(d, k)), <<k>> \o st[3]>>)

\* the long division of n by d # 0 with a large top limb, from the step st
\* on: <<quotient, remainder>>
RECURSIVE BDivFrom(_, _, _)
BDivFrom(n, d, st) ==
  IF st[1] = 0 THEN <<BTrim(st[3]), st[2]>>
  ELSE BDivFrom(n, d, BDivStep(n, d, st, BTrim(<<n[st[1]]>> \o st[2])))

\* <<floor(n / d), r>> with r = 0 exactly when d divides n, for d # 0 with a
\* large top limb
BDivLong(n, d) == BDivFrom(n, d, <<Len(n), <<>>, <<>>>>)

\* the same for every d # 0: n and d are multiplied by f to make the top limb
\* of d large, which keeps the search of a quotient limb short
BDivScaled(n, d, f) == BDivLong(BMulSmall(n, f), BMulSmall(d, f))

BDivMod(n, d) ==
  IF n = <<>> THEN <<<<>>, <<>>>>
  ELSE BDivScaled(n, d, LimbBase \div (d[Len(d)] + 1))

\* floor(n / d) for d # 0
BDiv(n, d) == BDivMod(n, d)[1]

\* the limbs i, i-1, .. 1 of floor(a / k) for 0 < k < LimbBase, given the
\* remainder carried in
RECURSIVE BDivSmallFrom(_, _, _, _)
BDivSmallFrom(a, k, i, carry) ==
  IF i = 0 THEN <<>>
  ELSE BDivSmallFrom(a, k, i - 1, (carry * LimbBase + a[i]) % k)
         \o <<(carry * LimbBase + a[i]) \div k>>

BDivSmall(a, k) ==
  IF a = <<>> THEN <<>> ELSE BTrim(BDivSmallFrom(a, k, Len(a), 0))

\* n / d rounded to the nearest natural, a tie rounded up
BDivRound(n, d) == BDiv(BAdd(BMulSmall(n, 2), d), BMulSmall(d, 2))

Pow10Small(k) == CASE k = 0 -> 1 [] k = 1 -> 10 [] k = 2 -> 100 [] OTHER -> 1000

BPow10(n) == Zeros(n \div 4) \o <<Pow10Small(n % 4)>>

\* a * 10^n
BMulPow10(a, n) == BShift(BMulSmall(a, Pow10Small(n % 4)), n \div 4)

LimbDigits(x) == <<x \div 1000, (x \div 100) % 10, (x \div 10) % 10, x % 10>>

\* ds without its leading zeros, keeping the last digit
StripZeros(ds) ==
  SubSeq(ds, MinOf({i \in 1..Len(ds) : ds[i] # 0 \/ i = Len(ds)}), Len(ds))

\* the decimal digits of a, most significant first, <<0>> for zero
BToDigits(a) ==
  IF a = <<>> THEN <<0>>
  ELSE StripZeros([i \in 1..(4 * Len(a)) |->
                    LimbDigits(a[Len(a) - ((i - 1) \div 4)])[((i - 1) % 4) + 1]])

\* the natural number written by the decimal digits ds
BFromDigits(ds) ==
  LET n == Len(ds)
      D(i) == IF i <= n THEN ds[n + 1 - i] ELSE 0
  IN  BTrim([j \in 1..((n + 3) \div 4) |->
              D(4 * j - 3) + 10 * D(4 * j - 2) + 100 * D(4 * j - 1) + 1000 * D(4 * j)])

\* ------------------------------------------------------------------------
\* JavaScript numbers: IEEE 754 binary64 values
\* ------------------------------------------------------------------------
NaN == [k |-> "nan", neg |-> FALSE, mag |-> <<>>, exp |-> 0]

Infinity(neg) == [k |-> "inf", neg |-> neg, mag |-> <<>>, exp |-> 0]

\* the zero of the given sign
Zero(neg) == [k |-> "fin", neg |-> neg, mag |-> <<>>, exp |-> 0]

\* 2^n for 0 <= n
Pow2(n) == BShl(<<1>>, n)

\* 2^53 = 9007199254740992: a mantissa is below it
TwoTo53 == <<992, 5474, 1992, 9007>>

\* the 12 low bits of mag (LimbBase^3 is a multiple of 2^12)
LowBits(mag) ==
  (BLimb(mag, 1) + (LimbBase % 4096) * BLimb(mag, 2)
     + ((LimbBase * LimbBase) % 4096) * BLimb(mag, 3)) % 4096

\* the number of low zero bits of low # 0
ZeroBits(low) == MaxOf({t \in 0..11 : low % (2 ^ t) = 0})

\* <<m, e>> with m odd and m * 2^e = mag * 2^exp, for mag # 0
RECURSIVE OddPart(_, _)
OddPart(mag, exp) ==
  IF LowBits(mag) = 0 THEN OddPart(BDivSmall(mag, 4096), exp + 12)
  ELSE IF mag[1] % 2 = 1 THEN <<mag, exp>>
  ELSE <<BDivSmall(mag, 2 ^ ZeroBits(LowBits(mag))), exp + ZeroBits(LowBits(mag))>>

\* the number of bits of a # 0, or one less or one more: log2(LimbBase) =
\* 13.288 bits for each limb below the top limb, and the bits of that
BitGuess(a) ==
  ((Len(a) - 1) * 13288) \div 1000 + MinOf({b \in 1..14 : a[Len(a)] < 2 ^ b})

\* the number of bits of a # 0: the least b with a < 2^b
BitLen(a) ==
  MinOf({b \in (BitGuess(a) - 1)..(BitGuess(a) + 1) : BCmp(a, Pow2(b)) < 0})

\* the finite number (-1)^neg * mag * 2^exp for mag <= 2^53 and
\* exp >= -1074, held with an odd mantissa
Finite(neg, mag, exp) ==
  IF mag = <<>> THEN Zero(neg)
  ELSE Bind(OddPart(mag, exp), LAMBDA me :
         [k |-> "fin", neg |-> neg, mag |-> me[1], exp |-> me[2]])

IsNaN(x) == x.k = "nan"

IsZero(x) == x.k = "fin" /\ x.mag = <<>>

\* the number r * 2^e for a mantissa r of 53 bits (fewer at e = -1074), or
\* for r = 2^53: infinite from 2^1024 on
RoundedUp(neg, r, e) ==
  IF e > 971 \/ (e = 971 /\ r = TwoTo53) THEN Infinity(neg) ELSE Finite(neg, r, e)

\* the mantissa m, or the next one when the bits low dropped below it, of
\* which half is the highest, and what was below them (sticky) are more than
\* half a unit, or just half and m is odd
RoundKept(neg, m, low, half, sticky, e) ==
  RoundedUp(neg,
            IF low > half \/ (low = half /\ (sticky \/ BLimb(m, 1) % 2 = 1))
            THEN BAdd(m, <<1>>) ELSE m,
            e)

\* q rounded to the mantissa without its s < 12 low bits
RoundTo(neg, q, sticky, e, s) ==
  RoundKept(neg, BDivSmall(q, 2 ^ s), LowBits(q) % (2 ^ s), 2 ^ (s - 1), sticky,
            e + s)

\* the number of low bits that q < 2^61 has more than a mantissa, two at least
DropBits(q) == MinOf({s \in 2..8 : BCmp(q, BMulSmall(TwoTo53, 2 ^ s)) < 0})

\* the double nearest to (q + f) * 2^e for the quotient qr[1] = q and a
\* fraction f < 1 that is zero when the remainder qr[2] is, a tie going to
\* the even mantissa
RoundBits(neg, qr, e) == RoundTo(neg, qr[1], qr[2] # <<>>, e, DropBits(qr[1]))

\* the double nearest to (n / d) * 2^e, the quotient taken of n * 2^sh / d
RoundShifted(neg, n, d, e, sh) ==
  Bind(BDivMod(BShl(n, Max(sh, 0)), BShl(d, Max(-sh, 0))), LAMBDA qr :
    RoundBits(neg, qr, e - sh))

\* the double nearest to (n / d) * 2^e for d # 0: n * 2^e itself when it is
\* a double; otherwise the quotient is taken with two to seven bits more
\* than a mantissa, fewer below 2^-1022
Round(neg, n, d, e) ==
  IF n = <<>> THEN Zero(neg)
  ELSE IF d = <<1>> /\ -1074 <= e /\ e <= 971 /\ BCmp(n, TwoTo53) < 0
       THEN Finite(neg, n, e)
  ELSE RoundShifted(neg, n, d, e,
                    Min(57 - (BitGuess(n) - BitGuess(d)), e + 1076))

\* the integer n, -LimbBase < n < LimbBase, as a number
NumOfInt(n) ==
  IF n = 0 THEN Zero(FALSE) ELSE Finite(n < 0, <<IF n < 0 THEN -n ELSE n>>, 0)

NumNeg(x) ==
  CASE x.k = "nan" -> x
    [] x.k = "inf" -> Infinity(~x.neg)
    [] OTHER -> [x EXCEPT !.neg = ~x.neg]

\* (-1)^xneg * a * 2^e + (-1)^yneg * b * 2^e, c comparing a with b: the sum
\* of two opposite numbers is +0
FiniteSum(xneg, a, yneg, b, e, c) ==
  IF xneg # yneg /\ c = 0 THEN Zero(FALSE)
  ELSE Round(IF xneg = yneg \/ c > 0 THEN xneg ELSE yneg,
             IF xneg = yneg THEN BAdd(a, b)
             ELSE IF c > 0 THEN BSub(a, b) ELSE BSub(b, a),
             <<1>>, e)

\* x + y for finite x and y, both mantissas brought to the exponent e
FiniteAddAt(xneg, a, yneg, b, e) == FiniteSum(xneg, a, yneg, b, e, BCmp(a, b))

FiniteAdd(x, y, e) ==
  FiniteAddAt(x.neg, BShl(x.mag, x.exp - e), y.neg, BShl(y.mag, y.exp - e), e)

\* x + y
NumAdd(x, y) ==
  CASE x.k = "nan" \/ y.k = "nan" -> NaN
    [] x.k = "inf" -> IF y.k = "inf" /\ y.neg # x.neg THEN NaN ELSE x
    [] y.k = "inf" -> y
    [] OTHER -> FiniteAdd(x, y, Min(x.exp, y.exp))

\* x - y
NumSub(x, y) == NumAdd(x, NumNeg(y))

\* x * y
NumMul(x, y) ==
  CASE x.k = "nan" \/ y.k = "nan" -> NaN
    [] x.k = "inf" \/ y.k = "inf" ->
         IF IsZero(x) \/ IsZero(y) THEN NaN ELSE Infinity(x.neg # y.neg)
    [] OTHER -> Round(x.neg # y.neg, BMul(x.mag, y.mag), <<1>>, x.exp + y.exp)

\* x / y
NumDiv(x, y) ==
  CASE x.k = "nan" \/ y.k = "nan" -> NaN
    [] x.k = "inf" -> IF y.k = "inf" THEN NaN ELSE Infinity(x.neg # y.neg)
    [] y.k = "inf" -> Zero(x.neg # y.neg)
    [] IsZero(y) -> IF IsZero(x) THEN NaN ELSE Infinity(x.neg # y.neg)
    [] OTHER -> Round(x.neg # y.neg, x.mag, y.mag, x.exp - y.exp)

\* the numerator and the denominator of |x| for a finite x
Numer(x) == BShl(x.mag, Max(x.exp, 0))

Denom(x) == Pow2(Max(-x.exp, 0))

\* ------------------------------------------------------------------------
\* parseFloat, Number.prototype.toString and Number.prototype.toFixed
\* ------------------------------------------------------------------------
ErrorStr == <<"E", "r", "r", "o", "r">>

NaNStr == <<"N", "a", "N">>

InfinityStr == <<"I", "n", "f", "i", "n", "i", "t", "y">>

\* the number of digit characters of s from position i on
DigitRun(s, i) ==
  MinOf({j \in i..(Len(s) + 1) : j > Len(s) \/ ~IsDigit(s[j])}) - i

DigitVals(s, i, n) == [j \in 1..n |-> DigitVal(s[i + j - 1])]

\* the small natural number written by the digits ds, capped at LimbBase
RECURSIVE SmallVal(_)
SmallVal(ds) ==
  IF ds = <<>> THEN 0
  ELSE Min(LimbBase, SmallVal(SubSeq(ds, 1, Len(ds) - 1)) * 10 + ds[Len(ds)])

RECURSIVE NatChars(_)
NatChars(n) ==
  IF n < 10 THEN <<DigitChars[n + 1]>>
  ELSE NatChars(n \div 10) \o <<DigitChars[(n % 10) + 1]>>

DigitsToChars(ds) == [i \in 1..Len(ds) |-> DigitChars[ds[i] + 1]]

\* the double nearest to ds * 10^p for the decimal digits ds
NumOfDigits(neg, ds, p) ==
  Round(neg, BMulPow10(BFromDigits(ds), Max(p, 0)), BPow10(Max(-p, 0)), 0)

\* parseFloat(s): the longest prefix of s that is a decimal literal
parseFloat(s) ==
  Bind(IF Len(s) >= 1 /\ s[1] \in {"+", "-"} THEN 1 ELSE 0, LAMBDA signLen :
  Bind(signLen = 1 /\ s[1] = "-", LAMBDA neg :
  Bind(signLen + 1, LAMBDA p :
  Bind(DigitRun(s, p), LAMBDA ni :
  Bind(p + ni, LAMBDA q :
  Bind(q <= Len(s) /\ s[q] = ".", LAMBDA hasDot :
  Bind(IF hasDot THEN DigitRun(s, q + 1) ELSE 0, LAMBDA nf :
  Bind(IF hasDot THEN q + 1 + nf ELSE q, LAMBDA e :
  Bind(e <= Len(s) /\ s[e] \in {"e", "E"}, LAMBDA hasE :
  Bind(IF hasE /\ e + 1 <= Len(s) /\ s[e + 1] \in {"+", "-"} THEN 1 ELSE 0,
       LAMBDA esLen :
  Bind(IF hasE THEN DigitRun(s, e + 1 + esLen) ELSE 0, LAMBDA ne :
  Bind(SmallVal(DigitVals(s, e + 1 + esLen, ne)), LAMBDA eabs :
  Bind(IF ne = 0 THEN 0
       ELSE IF esLen = 1 /\ s[e + 1] = "-" THEN -eabs ELSE eabs, LAMBDA exp :
    IF StartsWithAt(s, InfinityStr, p) THEN Infinity(neg)
    ELSE IF ni = 0 /\ nf = 0 THEN NaN
    ELSE NumOfDigits(neg, DigitVals(s, p, ni) \o DigitVals(s, q + 1, nf),
                     exp - nf))))))))))))))

\* is (r + mp) / s at or above 10^n (above it when the end of the rounding
\* interval is not itself rounded to the number)
TooHigh(r, s, mp, even, n) ==
  BCmp(BMulPow10(BAdd(r, mp), Max(-n, 0)), BMulPow10(s, Max(n, 0)))
    >= (IF even THEN 0 ELSE 1)

\* the least n for which (r + mp) / s is not too high, g being the decimal
\* exponent of the highest bit of r / s
DecimalExponent(r, s, mp, even, g) ==
  MinOf({n \in (g - 1)..(g + 2) : ~TooHigh(r, s, mp, even, n)})

\* one digit of the shortest decimal that reads back as the number r / s
\* whose rounding interval is ((r - mm) / s, (r + mp) / s), for r / s < 10:
\* <<r, mp, mm, ds, done>> with the digit appended to ds; of two last digits
\* equally near the number the even one is taken
GenerateStep(st, s, even) ==
  Bind(BSearch(st[1], s, 0, 9), LAMBDA d :
  Bind(BSub(st[1], BMulSmall(s, d)), LAMBDA r1 :
  Bind(BCmp(r1, st[3]), LAMBDA lo :
  Bind(BCmp(BAdd(r1, st[2]), s), LAMBDA hi :
  Bind(IF even THEN lo <= 0 ELSE lo < 0, LAMBDA tc1 :
  Bind(IF even THEN hi >= 0 ELSE hi > 0, LAMBDA tc2 :
    CASE ~tc1 /\ ~tc2 ->
           <<BMulSmall(r1, 10), BMulSmall(st[2], 10), BMulSmall(st[3], 10),
             Append(st[4], d), FALSE>>
      [] tc1 /\ ~tc2 -> <<r1, st[2], st[3], Append(st[4], d), TRUE>>
      [] ~tc1 /\ tc2 -> <<r1, st[2], st[3], Append(st[4], d + 1), TRUE>>
      [] OTHER ->
           <<r1, st[2], st[3],
             Append(st[4], IF BCmp(BMulSmall(r1, 2), s) + (d % 2) <= 0
                           THEN d ELSE d + 1),
             TRUE>>))))))

RECURSIVE GenerateFrom(_, _, _)
GenerateFrom(st, s, even) ==
  IF st[5] THEN st[4] ELSE GenerateFrom(GenerateStep(st, s, even), s, even)

\* the digits of the shortest decimal that reads back as r / s
Generate(r, s, mp, mm, even) == GenerateFrom(<<r, mp, mm, <<>>, FALSE>>, s, even)

\* <<ds, n>> for the number r / s of the rounding interval
\* ((r - mm) / s, (r + mp) / s): ds the digits and n the decimal exponent
DigitsAt(r, s, mp, mm, even, n) ==
  <<Generate(BMulPow10(r, Max(-n, 0) + 1), BMulPow10(s, Max(n, 0)),
             BMulPow10(mp, Max(-n, 0) + 1), BMulPow10(mm, Max(-n, 0) + 1), even),
    n>>

\* <<ds, n>> for the number r / s whose highest bit is 2^top
DigitsOfInterval(r, s, mp, mm, even, top) ==
  DigitsAt(r, s, mp, mm, even,
           DecimalExponent(r, s, mp, even, (top * 30103) \div 100000))

\* <<ds, n>> for the number mag * 2^exp of the given number of bits, a
\* mantissa of 53 bits without its sh low zero bits: half the gap to the
\* double above is 2^(exp - sh - 1), half the gap to the one below is
\* 2^(exp - sh - c): half as much (c = 2) when the mantissa is a power of two
DigitsOfMantissa(mag, exp, bits, sh, c) ==
  DigitsOfInterval(BShl(mag, Max(exp, sh) + c), Pow2(Max(sh - exp, 0) + c),
                   Pow2(Max(exp - sh, 0) + c - 1), Pow2(Max(exp - sh, 0)),
                   sh > 0, bits + exp - 1)

\* the digits of x, its mantissa having sh bits less than 53
ShortestShifted(x, bits, sh) ==
  DigitsOfMantissa(x.mag, x.exp, bits, sh,
                   IF x.mag = <<1>> /\ x.exp - sh > -1074 THEN 2 ELSE 1)

\* <<ds, n>> for the decimal digits all of a natural number below 2^53:
\* ds without the zeros at the end
IntegerDigits(all) ==
  <<SubSeq(all, 1, MaxOf({i \in 1..Len(all) : all[i] # 0})), Len(all)>>

ShortestOf(x, bits) ==
  IF x.exp >= 0 /\ bits + x.exp <= 53
  THEN IntegerDigits(BToDigits(BShl(x.mag, x.exp)))
  ELSE ShortestShifted(x, bits, Min(53 - bits, x.exp + 1074))

\* <<ds, n>> for a finite x # 0: the fewest decimal digits ds, and n, for
\* which 0.ds * 10^n is nearer to |x| than to any other double
ShortestDigits(x) == ShortestOf(x, BitLen(x.mag))

\* the text of 0.ds * 10^n for the k digit characters ds
DecimalText(ds, k, n) ==
  CASE k <= n /\ n <= 21 -> ds \o [i \in 1..(n - k) |-> "0"]
    [] 0 < n /\ n <= 21 -> SubSeq(ds, 1, n) \o <<".">> \o SubSeq(ds, n + 1, k)
    [] -6 < n /\ n <= 0 -> <<"0", ".">> \o [i \in 1..(-n) |-> "0"] \o ds
    [] OTHER ->
       (IF k = 1 THEN ds ELSE <<ds[1], ".">> \o SubSeq(ds, 2, k))
       \o <<"e", IF n - 1 < 0 THEN "-" ELSE "+">>
       \o NatChars(IF n - 1 < 0 THEN 1 - n ELSE n - 1)

\* the text of the number of the digits sd[1] and the decimal exponent sd[2]
DigitsText(neg, sd) ==
  (IF neg THEN <<"-">> ELSE <<>>)
  \o DecimalText(DigitsToChars(sd[1]), Len(sd[1]), sd[2])

\* String(x) and x.toString()
NumToString(x) ==
  CASE x.k = "nan" -> NaNStr
    [] x.k = "inf" -> (IF x.neg THEN <<"-">> ELSE <<>>) \o InfinityStr
    [] x.mag = <<>> -> <<"0">>
    [] OTHER -> DigitsText(x.neg, ShortestDigits(x))

\* the digit characters of a natural number, padded to n + 1 digits, as a
\* text with n decimals
FixedText(padded, n) ==
  SubSeq(padded, 1, Len(padded) - n) \o <<".">>
  \o SubSeq(padded, Len(padded) - n + 1, Len(padded))

\* the digit characters ds with zeros in front up to n + 1 digits
FixedPad(ds, n) == [i \in 1..(n + 1 - Len(ds)) |-> "0"] \o ds

\* x.toFixed(n) for 0 < n <= 100: the exact value of x is rounded to n
\* places, a tie away from zero; a number from 10^21 on is written as by String
toFixedOf(x, n, num, den) ==
  IF BCmp(num, BMulPow10(den, 21)) >= 0 THEN NumToString(x)
  ELSE (IF x.neg /\ x.mag # <<>> THEN <<"-">> ELSE <<>>)
       \o FixedText(FixedPad(DigitsToChars(BToDigits(
                      BDivRound(BMulPow10(num, n), den))), n), n)

toFixed(x, n) ==
  CASE x.k = "nan" -> NaNStr
    [] x.k = "inf" -> (IF x.neg THEN <<"-">> ELSE <<>>) \o InfinityStr
    [] OTHER -> toFixedOf(x, n, Numer(x), Denom(x))

\* ------------------------------------------------------------------------
\* Values of the state cells
\* ------------------------------------------------------------------------
\* null, a string or a number in a cell typed string | null or number | null
Null == [t |-> "null", v |-> <<>>]

StrVal(s) == [t |-> "str", v |-> s]

NumVal(n) == [t |-> "num", v |-> n]

\* the null of a cell typed Operation or string | null
NoOp == "null"

Sp == <<" ">>

\* the state a handler's closure reads, and the state its setters leave:
\*   cur  display / currentOperand            prev  savedValue / previousOperand / firstOperand
\*   op   pendingOperator / operation / operator
\*   ow   waitingForOperand / overwrite / waitingForSecondOperand
\*   expr expression (variant A)               hist  history
\*   log  every entry put into hist since it was last emptied, oldest first
\*   fault "handler" when the handler threw
InitialState ==
  [cur |-> <<"0">>, prev |-> Null, op |-> NoOp, ow |-> FALSE, expr |-> <<>>,
   hist |-> <<>>, log |-> <<>>, fault |-> "none"]

\* ------------------------------------------------------------------------
\* Keys of a KeyboardEvent: the characters of event.key
\* ------------------------------------------------------------------------
KeyEnter == <<"E", "n", "t", "e", "r">>

KeyBackspace == <<"B", "a", "c", "k", "s", "p", "a", "c", "e">>

KeyEscape == <<"E", "s", "c", "a", "p", "e">>

\* the UTF-16 code unit of a character of a key
CharCode(c) ==
  CASE IsDigit(c) -> 48 + DigitVal(c)
    [] c = "*" -> 42 [] c = "+" -> 43 [] c = "-" -> 45 [] c = "." -> 46
    [] c = "/" -> 47 [] c = "=" -> 61
    [] c = "B" -> 66 [] c = "E" -> 69 [] c = "F" -> 70 [] c = "S" -> 83
    [] c = "a" -> 97 [] c = "c" -> 99 [] c = "e" -> 101 [] c = "f" -> 102
    [] c = "h" -> 104 [] c = "i" -> 105 [] c = "k" -> 107 [] c = "n" -> 110
    [] c = "p" -> 112 [] c = "r" -> 114 [] c = "s" -> 115 [] c = "t" -> 116
    [] c = "x" -> 120

\* a <= b for strings, compared by code units
RECURSIVE StrLeqFrom(_, _, _)
StrLeqFrom(a, b, i) ==
  IF i > Len(a) THEN TRUE
  ELSE IF i > Len(b) THEN FALSE
  ELSE IF CharCode(a[i]) < CharCode(b[i]) THEN TRUE
  ELSE IF CharCode(a[i]) > CharCode(b[i]) THEN FALSE
  ELSE StrLeqFrom(a, b, i + 1)

StrLeq(a, b) == StrLeqFrom(a, b, 1)

\* ------------------------------------------------------------------------
\* Variant A: src/src/App.tsx
\* ------------------------------------------------------------------------
HistoryCapA == 50

\* !savedValue
A_Falsy(x) == x.t = "null" \/ x.v = <<>>

\* the result without the rounding: String(result)
A_round_unrounded(result) == NumToString(result)

\* String(parseFloat(result.toFixed(8)))
A_round(result) == NumToString(parseFloat(toFixed(result, 8)))

A_calculate(s, rightOperand, pendingOperator) ==
  IF A_Falsy(s.prev) THEN rightOperand
  ELSE Bind(parseFloat(rightOperand), LAMBDA current :
       Bind(parseFloat(s.prev.v), LAMBDA previous :
         CASE pendingOperator = "+" -> A_round(NumAdd(previous, current))
           [] pendingOperator = "-" -> A_round(NumSub(previous, current))
           [] pendingOperator \in {"×", "*"} -> A_round(NumMul(previous, current))
           [] pendingOperator \in {"÷", "/"} ->
                IF IsZero(current) THEN ErrorStr
                ELSE A_round(NumDiv(previous, current))
           [] OTHER -> rightOperand))

A_handleDigit(s, digit) ==
  IF s.cur = ErrorStr THEN [s EXCEPT !.cur = digit, !.ow = FALSE]
  ELSE IF s.ow THEN [s EXCEPT !.cur = digit, !.ow = FALSE]
  ELSE [s EXCEPT !.cur = IF s.cur = <<"0">> THEN digit ELSE s.cur \o digit]

A_handleOperator(s, nextOperator) ==
  IF s.cur = ErrorStr THEN s
  ELSE Bind(s.cur, LAMBDA inputValue :
         IF ~A_Falsy(s.prev) /\ s.op \notin {NoOp, ""} /\ ~s.ow
         THEN Bind(A_calculate(s, inputValue, s.op), LAMBDA newValue :
                IF newValue = ErrorStr
                THEN [s EXCEPT !.cur = ErrorStr, !.prev = Null, !.op = NoOp]
                ELSE [s EXCEPT !.cur = newValue, !.prev = StrVal(newValue),
                               !.expr = newValue \o Sp \o <<nextOperator>>,
                               !.ow = TRUE, !.op = nextOperator])
         ELSE [s EXCEPT !.prev = StrVal(inputValue),
                        !.expr = inputValue \o Sp \o <<nextOperator>>,
                        !.ow = TRUE, !.op = nextOperator])

\* handleEqual putting the new item behind the kept ones: [...prev, newHistoryItem]
A_handleEqual_appendsLast(s) ==
  IF A_Falsy(s.prev) \/ s.op \in {NoOp, ""} \/ s.cur = ErrorStr THEN s
  ELSE Bind(s.cur, LAMBDA inputValue :
       Bind(A_calculate(s, inputValue, s.op), LAMBDA result :
       Bind([result |-> result,
             expression |-> s.prev.v \o Sp \o <<s.op>> \o Sp \o inputValue],
            LAMBDA newHistoryItem :
       Bind(result # ErrorStr, LAMBDA recorded :
         [s EXCEPT !.hist = IF recorded
                            THEN Take(s.hist \o <<newHistoryItem>>, HistoryCapA)
                            ELSE s.hist,
                   !.log = IF recorded THEN Append(s.log, newHistoryItem) ELSE s.log,
                   !.cur = result, !.expr = <<>>, !.prev = Null, !.op = NoOp,
                   !.ow = TRUE]))))

A_handleEqual(s) ==
  IF A_Falsy(s.prev) \/ s.op \in {NoOp, ""} \/ s.cur = ErrorStr THEN s
  ELSE Bind(s.cur, LAMBDA inputValue :
       Bind(A_calculate(s, inputValue, s.op), LAMBDA result :
       Bind([result |-> result,
             expression |-> s.prev.v \o Sp \o <<s.op>> \o Sp \o inputValue],
            LAMBDA newHistoryItem :
       Bind(result # ErrorStr, LAMBDA recorded :
         [s EXCEPT !.hist = IF recorded
                            THEN Take(<<newHistoryItem>> \o s.hist, HistoryCapA)
                            ELSE s.hist,
                   !.log = IF recorded THEN Append(s.log, newHistoryItem) ELSE s.log,
                   !.cur = result, !.expr = <<>>, !.prev = Null, !.op = NoOp,
                   !.ow = TRUE]))))

A_handleClear(s) ==
  [s EXCEPT !.cur = <<"0">>, !.expr = <<>>, !.prev = Null, !.op = NoOp, !.ow = FALSE]

A_handleBackspace(s) ==
  IF s.ow \/ s.cur = ErrorStr THEN s
  ELSE [s EXCEPT !.cur = IF Len(s.cur) > 1 THEN Take(s.cur, Len(s.cur) - 1)
                         ELSE <<"0">>]

A_handleDot(s) ==
  IF s.ow THEN [s EXCEPT !.cur = <<"0", ".">>, !.ow = FALSE]
  ELSE IF ~Includes(s.cur, ".") THEN [s EXCEPT !.cur = s.cur \o <<".">>]
  ELSE s

\* handlePercentage without its display === 'Error' test
A_handlePercentage_noErrorTest(s) ==
  [s EXCEPT !.cur = NumToString(NumDiv(parseFloat(s.cur), NumOfInt(100)))]

A_handlePercentage(s) ==
  IF s.cur = ErrorStr THEN s
  ELSE [s EXCEPT !.cur = NumToString(NumDiv(parseFloat(s.cur), NumOfInt(100)))]

A_handleSignToggle(s) ==
  IF s.cur = ErrorStr THEN s
  ELSE [s EXCEPT !.cur = NumToString(NumMul(parseFloat(s.cur), NumOfInt(-1)))]

A_handleKeyDown(s, key) ==
  CASE Len(key) = 1 /\ IsDigit(key[1]) -> A_handleDigit(s, key)
    [] key = <<".">> -> A_handleDot(s)
    [] key \in {KeyEnter, <<"=">>} -> A_handleEqual(s)
    [] key = KeyBackspace -> A_handleBackspace(s)
    [] key = KeyEscape -> A_handleClear(s)
    [] key = <<"+">> -> A_handleOperator(s, "+")
    [] key = <<"-">> -> A_handleOperator(s, "-")
    [] key \in {<<"*">>, <<"x">>} -> A_handleOperator(s, "×")
    [] key = <<"/">> -> A_handleOperator(s, "÷")
    [] OTHER -> s

\* ------------------------------------------------------------------------
\* Variant B: src/unnamed/part_000
\* ------------------------------------------------------------------------
HistoryCapB == 10

\* what formatOperand yields when BigInt throws its SyntaxError
Thrown == <<"SyntaxError">>

\* the position of the first "." of s, Len(s) + 1 when there is none
FirstDot(s) ==
  IF Includes(s, ".")
  THEN CHOOSE i \in 1..Len(s) : s[i] = "." /\ \A j \in 1..(i - 1) : s[j] # "."
  ELSE Len(s) + 1

\* does BigInt(t) parse: the empty string, or an optional sign and digits
BigIntParses(t) ==
  \/ t = <<>>
  \/ LET signLen == IF t[1] \in {"+", "-"} THEN 1 ELSE 0
     IN  /\ Len(t) > signLen
         /\ \A i \in (signLen + 1)..Len(t) : IsDigit(t[i])

StripZeroChars(ds) ==
  SubSeq(ds, MinOf({i \in 1..Len(ds) : ds[i] # "0" \/ i = Len(ds)}), Len(ds))

RECURSIVE Group(_)
Group(ds) ==
  IF Len(ds) <= 3 THEN ds
  ELSE Group(SubSeq(ds, 1, Len(ds) - 3)) \o <<",">> \o SubSeq(ds, Len(ds) - 2, Len(ds))

\* new Intl.NumberFormat('en-US').format(BigInt(t)) for a t that parses
FormatBigInt(t) ==
  IF t = <<>> THEN <<"0">>
  ELSE Bind(StripZeroChars(Drop(t, IF t[1] \in {"+", "-"} THEN 1 ELSE 0)),
            LAMBDA ds :
              (IF t[1] = "-" /\ ds # <<"0">> THEN <<"-">> ELSE <<>>) \o Group(ds))

B_formatOperand(operand) ==
  IF operand = <<>> THEN <<>>
  ELSE IF operand = <<"-">> THEN <<"-">>
  ELSE Bind(FirstDot(operand), LAMBDA d1 :
       Bind(Take(operand, d1 - 1), LAMBDA integer :
       Bind(Drop(operand, d1), LAMBDA rest :
       Bind(Take(rest, FirstDot(rest) - 1), LAMBDA decimal :
         IF ~BigIntParses(integer) THEN Thrown
         ELSE IF d1 > Len(operand) THEN FormatBigInt(integer)
         ELSE FormatBigInt(integer) \o <<".">> \o decimal))))

B_clear(s) ==
  [s EXCEPT !.cur = <<"0">>, !.prev = Null, !.op = NoOp, !.ow = FALSE]

B_deleteDigit(s) ==
  IF s.ow THEN [s EXCEPT !.cur = <<"0">>, !.ow = FALSE]
  ELSE IF s.cur = <<"0">> THEN s
  ELSE IF Len(s.cur) = 1 THEN [s EXCEPT !.cur = <<"0">>]
  ELSE [s EXCEPT !.cur = Take(s.cur, Len(s.cur) - 1)]

B_appendNumber(s, number) ==
  IF number = <<".">> /\ Includes(s.cur, ".") THEN s
  ELSE IF s.ow
       THEN [s EXCEPT !.cur = IF number = <<".">> THEN <<"0", ".">> ELSE number,
                      !.ow = FALSE]
       ELSE IF s.cur = <<"0">> /\ number # <<".">>
            THEN [s EXCEPT !.cur = number]
            ELSE [s EXCEPT !.cur = s.cur \o number]

B_evaluate(prev, current, op) ==
  Bind(parseFloat(prev), LAMBDA p :
  Bind(parseFloat(current), LAMBDA c :
    IF IsNaN(p) \/ IsNaN(c) THEN NumOfInt(0)
    ELSE CASE op = "+" -> NumAdd(p, c)
           [] op = "-" -> NumSub(p, c)
           [] op = "*" -> NumMul(p, c)
           [] op = "/" -> NumDiv(p, c)
           [] OTHER -> NumOfInt(0)))

\* chooseOperation without the fold of the pending operation
B_chooseOperation_noFold(s, op) ==
  IF s.cur = <<>> THEN s
  ELSE [s EXCEPT !.op = op, !.prev = StrVal(s.cur), !.ow = TRUE]

B_chooseOperation(s, op) ==
  IF s.cur = <<>> THEN s
  ELSE IF s.prev # Null
       THEN Bind(NumToString(B_evaluate(s.prev.v, s.cur, s.op)), LAMBDA result :
              [s EXCEPT !.prev = StrVal(result), !.op = op,
                        !.cur = result, !.ow = TRUE])
       ELSE [s EXCEPT !.op = op, !.prev = StrVal(s.cur), !.ow = TRUE]

\* calculate without its setOperation(null) and setPreviousOperand(null)
B_calculate_keepsPending(s) ==
  IF s.op = NoOp \/ s.prev = Null THEN s
  ELSE Bind(B_evaluate(s.prev.v, s.cur, s.op), LAMBDA result :
       Bind(NumToString(parseFloat(toFixed(result, 10))), LAMBDA formattedResult :
       Bind(B_formatOperand(s.prev.v), LAMBDA f1 :
       Bind(B_formatOperand(s.cur), LAMBDA f2 :
       Bind(B_formatOperand(formattedResult), LAMBDA f3 :
       Bind(f1 \o Sp \o <<s.op>> \o Sp \o f2 \o Sp \o <<"=">> \o Sp \o f3,
            LAMBDA historyEntry :
         IF Thrown \in {f1, f2, f3} THEN [s EXCEPT !.fault = "handler"]
         ELSE [s EXCEPT !.hist = Take(<<historyEntry>> \o s.hist, HistoryCapB),
                        !.log = Append(s.log, historyEntry),
                        !.cur = formattedResult, !.ow = TRUE]))))))

B_calculate(s) ==
  IF s.op = NoOp \/ s.prev = Null THEN s
  ELSE Bind(B_evaluate(s.prev.v, s.cur, s.op), LAMBDA result :
       Bind(NumToString(parseFloat(toFixed(result, 10))), LAMBDA formattedResult :
       Bind(B_formatOperand(s.prev.v), LAMBDA f1 :
       Bind(B_formatOperand(s.cur), LAMBDA f2 :
       Bind(B_formatOperand(formattedResult), LAMBDA f3 :
       Bind(f1 \o Sp \o <<s.op>> \o Sp \o f2 \o Sp \o <<"=">> \o Sp \o f3,
            LAMBDA historyEntry :
         IF Thrown \in {f1, f2, f3} THEN [s EXCEPT !.fault = "handler"]
         ELSE [s EXCEPT !.hist = Take(<<historyEntry>> \o s.hist, HistoryCapB),
                        !.log = Append(s.log, historyEntry),
                        !.cur = formattedResult, !.prev = Null, !.op = NoOp,
                        !.ow = TRUE]))))))

\* percentage that also ends the overwrite state: setOverwrite(false)
B_percentage_clearsOverwrite(s) ==
  Bind(parseFloat(s.cur), LAMBDA current :
    IF IsNaN(current) THEN s
    ELSE [s EXCEPT !.cur = NumToString(NumDiv(current, NumOfInt(100))),
                   !.ow = FALSE])

B_percentage(s) ==
  Bind(parseFloat(s.cur), LAMBDA current :
    IF IsNaN(current) THEN s
    ELSE [s EXCEPT !.cur = NumToString(NumDiv(current, NumOfInt(100)))])

\* the tests of handleKeyDown exclude one another, so at most one handler runs
B_handleKeyDown(s, key) ==
  CASE StrLeq(<<"0">>, key) /\ StrLeq(key, <<"9">>) -> B_appendNumber(s, key)
    [] key = <<".">> -> B_appendNumber(s, <<".">>)
    [] key \in {<<"=">>, KeyEnter} -> B_calculate(s)
    [] key = KeyBackspace -> B_deleteDigit(s)
    [] key = KeyEscape -> B_clear(s)
    [] key \in {<<"+">>, <<"-">>, <<"*">>, <<"/">>} -> B_chooseOperation(s, key[1])
    [] OTHER -> s

\* does rendering the state throw: formatOperand of the two display lines
B_renderThrows(s) ==
  \/ B_formatOperand(s.cur) = Thrown
  \/ s.prev # Null /\ s.prev.v # <<>> /\ B_formatOperand(s.prev.v) = Thrown

\* ------------------------------------------------------------------------
\* Variant C: src/unnamed/part_001
\* ------------------------------------------------------------------------
HistoryCapC == 10

C_inputDigit(s, digit) ==
  IF s.ow THEN [s EXCEPT !.cur = digit, !.ow = FALSE]
  ELSE [s EXCEPT !.cur = IF s.cur = <<"0">> THEN digit ELSE s.cur \o digit]

\* inputDecimal without its display.includes('.') test
C_inputDecimal_noTest(s) ==
  IF s.ow THEN [s EXCEPT !.cur = <<"0", ".">>, !.ow = FALSE]
  ELSE [s EXCEPT !.cur = s.cur \o <<".">>]

C_inputDecimal(s) ==
  IF s.ow THEN [s EXCEPT !.cur = <<"0", ".">>, !.ow = FALSE]
  ELSE IF ~Includes(s.cur, ".") THEN [s EXCEPT !.cur = s.cur \o <<".">>]
  ELSE s

C_clear(s) ==
  [s EXCEPT !.cur = <<"0">>, !.prev = Null, !.op = NoOp, !.ow = FALSE]

C_calculate(first, second, op) ==
  CASE op = "+" -> NumAdd(first, second)
    [] op = "-" -> NumSub(first, second)
    [] op = "*" -> NumMul(first, second)
    [] op = "/" -> IF IsZero(second) THEN NumOfInt(0) ELSE NumDiv(first, second)
    [] OTHER -> second

C_performOperation(s, nextOperator) ==
  Bind(parseFloat(s.cur), LAMBDA inputValue :
    IF s.prev = Null
    THEN [s EXCEPT !.prev = NumVal(inputValue), !.ow = TRUE, !.op = nextOperator]
    ELSE IF s.op \notin {NoOp, ""}
    THEN Bind(C_calculate(s.prev.v, inputValue, s.op), LAMBDA result :
         Bind(NumToString(parseFloat(toFixed(result, 8))), LAMBDA formattedResult :
         Bind(NumToString(s.prev.v) \o Sp \o <<s.op>> \o Sp
              \o NumToString(inputValue) \o Sp \o <<"=">> \o Sp
              \o formattedResult, LAMBDA entry :
           [s EXCEPT !.cur = formattedResult, !.prev = NumVal(result),
                     !.hist = Take(<<entry>> \o s.hist, HistoryCapC),
                     !.log = Append(s.log, entry),
                     !.ow = TRUE, !.op = nextOperator])))
    ELSE [s EXCEPT !.ow = TRUE, !.op = nextOperator])

\* handleEquals without its setOperator(null)
C_handleEquals_keepsOperator(s) ==
  IF s.op \in {NoOp, ""} \/ s.prev = Null THEN s
  ELSE [C_performOperation(s, s.op) EXCEPT !.prev = Null]

\* handleEquals whose two resets are overtaken by the updates of
\* performOperation
C_handleEquals_resetsFirst(s) ==
  IF s.op \in {NoOp, ""} \/ s.prev = Null THEN s
  ELSE C_performOperation(s, s.op)

C_handleEquals(s) ==
  IF s.op \in {NoOp, ""} \/ s.prev = Null THEN s
  ELSE [C_performOperation(s, s.op) EXCEPT !.op = NoOp, !.prev = Null]

C_handleBackspace(s) ==
  IF s.ow THEN s
  ELSE IF Len(s.cur) = 1 THEN [s EXCEPT !.cur = <<"0">>]
  ELSE [s EXCEPT !.cur = Take(s.cur, Len(s.cur) - 1)]

C_handleKeyDown(s, key) ==
  CASE (\E i \in 1..Len(key) : IsDigit(key[i])) -> C_inputDigit(s, key)
    [] key = <<".">> -> C_inputDecimal(s)
    [] key = KeyBackspace -> C_handleBackspace(s)
    [] key \in {KeyEnter, <<"=">>} -> C_handleEquals(s)
    [] key = <<"+">> -> C_performOperation(s, "+")
    [] key = <<"-">> -> C_performOperation(s, "-")
    [] key = <<"*">> -> C_performOperation(s, "*")
    [] key = <<"/">> -> C_performOperation(s, "/")
    [] key = KeyEscape -> C_clear(s)
    [] OTHER -> s

\* ------------------------------------------------------------------------
\* The component: its state cells, the input events and their dispatch
\* ------------------------------------------------------------------------
VARIABLES
  variant,          \* "A", "B" or "C": which of the three components runs
  currentOperand,   \* display (A, C) / currentOperand (B)
  previousOperand,  \* savedValue (A) / previousOperand (B) / firstOperand (C)
  pendingOperator,  \* pendingOperator (A) / operation (B) / operator (C)
  overwrite,        \* waitingForOperand (A) / overwrite (B) / waitingForSecondOperand (C)
  expression,       \* expression (A)
  history,          \* history, newest first
  log,              \* the entries put into history since it was last emptied
  fault,            \* "none", "handler" (the last handler threw) or "render"
                    \* (rendering threw and React unmounted the component)
  listener,         \* the values of the state cells that the registered keydown
                    \* listener closes over
  last,             \* the last input event
  changed,          \* did the last input event change any of the state cells
  steps,            \* the number of input events handled
  script,           \* the input events still to come, when the input is scripted
  played            \* the scripted input events handled so far

vars == <<variant, currentOperand, previousOperand, pendingOperator, overwrite,
          expression, history, log, fault, listener, last, changed, steps, script,
          played>>

Variants == {"A", "B", "C"}

OpNames == {"add", "sub", "mul", "div"}

\* the operator an on-screen operator button passes to the handler
OpSymbol(v, name) ==
  CASE name = "add" -> "+"
    [] name = "sub" -> "-"
    [] name = "mul" -> IF v = "A" THEN "×" ELSE "*"
    [] name = "div" -> IF v = "A" THEN "÷" ELSE "/"

Event(kind, arg) == [a |-> arg, k |-> kind]

State ==
  [cur |-> currentOperand, prev |-> previousOperand, op |-> pendingOperator,
   ow |-> overwrite, expr |-> expression, hist |-> history, log |-> log,
   fault |-> "none"]

\* the state cells of s
Cells(s) == <<s.cur, s.prev, s.op, s.ow, s.expr, s.hist>>

\* onClick={() => setHistory([])}
\* a history-clear that also restarts the calculation
clearHistory_andCalculation(s) ==
  [s EXCEPT !.hist = <<>>, !.log = <<>>, !.cur = <<"0">>, !.prev = Null,
            !.op = NoOp, !.ow = FALSE]

clearHistory(s) == [s EXCEPT !.hist = <<>>, !.log = <<>>]

\* the state the handler of event e leaves when it runs in state s
Handle(v, s, e) ==
  CASE e.k = "digit" ->
         (CASE v = "A" -> A_handleDigit(s, e.a)
            [] v = "B" -> B_appendNumber(s, e.a)
            [] v = "C" -> C_inputDigit(s, e.a))
    [] e.k = "dot" ->
         (CASE v = "A" -> A_handleDot(s)
            [] v = "B" -> B_appendNumber(s, <<".">>)
            [] v = "C" -> C_inputDecimal(s))
    [] e.k = "operator" ->
         (CASE v = "A" -> A_handleOperator(s, OpSymbol(v, e.a[1]))
            [] v = "B" -> B_chooseOperation(s, OpSymbol(v, e.a[1]))
            [] v = "C" -> C_performOperation(s, OpSymbol(v, e.a[1])))
    [] e.k = "equals" ->
         (CASE v = "A" -> A_handleEqual(s)
            [] v = "B" -> B_calculate(s)
            [] v = "C" -> C_handleEquals(s))
    [] e.k = "clear" ->
         (CASE v = "A" -> A_handleClear(s)
            [] v = "B" -> B_clear(s)
            [] v = "C" -> C_clear(s))
    [] e.k = "backspace" ->
         (CASE v = "A" -> A_handleBackspace(s)
            [] v = "B" -> B_deleteDigit(s)
            [] v = "C" -> C_handleBackspace(s))
    [] e.k = "percent" ->
         (CASE v = "A" -> A_handlePercentage(s)
            [] v = "B" -> B_percentage(s))
    [] e.k = "sign" -> A_handleSignToggle(s)
    [] e.k = "historyClear" -> clearHistory(s)
    [] e.k = "key" ->
         (CASE v = "A" -> A_handleKeyDown(s, e.a)
            [] v = "B" -> B_handleKeyDown(s, e.a)
            [] v = "C" -> C_handleKeyDown(s, e.a))

\* is the control of event e part of the component v in state s
Offered(v, s, e) ==
  CASE e.k = "percent" -> v \in {"A", "B"}
    [] e.k = "sign" -> v = "A"
    [] e.k = "historyClear" -> v = "A" => Len(s.hist) > 0
    [] OTHER -> TRUE

\* the state cells a render hands to the functions it creates
Closure(s) == [cur |-> s.cur, op |-> s.op, ow |-> s.ow, prev |-> s.prev]

\* the dependency list without waitingForOperand / overwrite
ListenerDeps_withoutOverwrite(v, c) == <<c.cur, c.op, c.prev>>

\* the dependency list of useCallback(handleKeyDown, [...]) in A and B
ListenerDeps(v, c) ==
  IF v = "A" THEN <<c.cur, c.op, c.prev, c.ow>>
  ELSE <<c.cur, c.prev, c.op, c.ow>>

\* the closure of the keydown listener after a render of s, when the listener
\* registered before it closes over c: in A and B useCallback makes a new
\* handleKeyDown, and the effect registers it, when a dependency has changed;
\* in C the effect depends on handleBackspace and handleEquals, which every
\* render makes anew, so it registers a new listener after every render
Registered(v, c, s) ==
  IF v = "C" \/ ListenerDeps(v, Closure(s)) # ListenerDeps(v, c)
  THEN Closure(s)
  ELSE c

\* the state a handler called by the keydown listener reads: the cells of its
\* closure, and the history, which handlers only update from its latest value
ListenerState(s, c) ==
  [s EXCEPT !.cur = c.cur, !.prev = c.prev, !.op = c.op, !.ow = c.ow]

\* the state after a handler that read r has left out: a cell it did not set
\* keeps the value it has in s
Committed(s, r, out) ==
  [out EXCEPT !.cur = IF out.cur = r.cur THEN s.cur ELSE out.cur,
              !.prev = IF out.prev = r.prev THEN s.prev ELSE out.prev,
              !.op = IF out.op = r.op THEN s.op ELSE out.op,
              !.ow = IF out.ow = r.ow THEN s.ow ELSE out.ow]

\* the state the handler of e reads: a click runs the handler of the latest
\* render, a key press the handler that the registered listener closes over
Read(s, c, e) == IF e.k = "key" THEN ListenerState(s, c) ELSE s

\* the state the event e leaves
HandledFrom(v, s, r, e) == Committed(s, r, Handle(v, r, e))

Handled(v, s, c, e) == HandledFrom(v, s, Read(s, c, e), e)

\* the state after the handler and the re-render that follows it
Rendered(v, s) ==
  IF v = "B" /\ s.fault = "none" /\ B_renderThrows(s)
  THEN [s EXCEPT !.fault = "render"]
  ELSE s

\* one input event, handled to completion by a mounted component
Apply(e) ==
  /\ fault # "render"
  /\ Offered(variant, State, e)
  /\ \E s \in {Rendered(variant, Handled(variant, State, listener, e))} :
       /\ currentOperand' = s.cur
       /\ previousOperand' = s.prev
       /\ pendingOperator' = s.op
       /\ overwrite' = s.ow
       /\ expression' = s.expr
       /\ history' = s.hist
       /\ log' = s.log
       /\ fault' = s.fault
       /\ listener' = IF s.fault = "render" THEN listener
                      ELSE Registered(variant, listener, s)
       /\ changed' = (Cells(s) # Cells(State))
  /\ last' = e
  /\ steps' = steps + 1
  /\ variant' = variant

\* the state after construction, with the scripted input sc still to come
Start(sc) ==
  /\ variant \in Variants
  /\ currentOperand = InitialState.cur
  /\ previousOperand = InitialState.prev
  /\ pendingOperator = InitialState.op
  /\ overwrite = InitialState.ow
  /\ expression = InitialState.expr
  /\ history = InitialState.hist
  /\ log = InitialState.log
  /\ fault = InitialState.fault
  /\ listener = Closure(InitialState)
  /\ last = Event("init", <<>>)
  /\ changed = FALSE
  /\ steps = 0
  /\ script = sc
  /\ played = <<>>

Init == Start(<<>>)

\* the inputs explored freely
SomeDigits == {"0", "5"}

SomeOps == {"sub", "div"}

SomeKeys == {<<"F", "1">>, <<"x">>, <<"S", "h", "i", "f", "t">>}

Free(e) ==
  /\ steps < MaxSteps
  /\ script = <<>>
  /\ Apply(e)
  /\ UNCHANGED <<script, played>>

Digit == \E d \in SomeDigits : Free(Event("digit", <<d>>))

Dot == Free(Event("dot", <<>>))

Operator == \E o \in SomeOps : Free(Event("operator", <<o>>))

Equals == Free(Event("equals", <<>>))

ClearAll == Free(Event("clear", <<>>))

Backspace == Free(Event("backspace", <<>>))

Percent == Free(Event("percent", <<>>))

SignToggle == Free(Event("sign", <<>>))

HistoryClear == Free(Event("historyClear", <<>>))

KeyDown == \E key \in SomeKeys : Free(Event("key", key))

Next ==
  \/ Digit
  \/ Dot
  \/ Operator
  \/ Equals
  \/ ClearAll
  \/ Backspace
  \/ Percent
  \/ SignToggle
  \/ HistoryClear
  \/ KeyDown

Spec == Init /\ [][Next]_vars

\* ------------------------------------------------------------------------
\* Scripted input: the events of script, in order
\* ------------------------------------------------------------------------
Scripted ==
  /\ script # <<>>
  /\ Apply(Head(script))
  /\ script' = Tail(script)
  /\ played' = Append(played, Head(script))

\* a, op1, b, op2, c, evaluate
ChainDigits == {"0", "1", "2", "3", "7"}

Chain(a, o1, b, o2, c) ==
  <<Event("digit", <<a>>), Event("operator", <<o1>>), Event("digit", <<b>>),
    Event("operator", <<o2>>), Event("digit", <<c>>), Event("equals", <<>>)>>

InitChain ==
  \E a \in ChainDigits, b \in ChainDigits, c \in ChainDigits :
    \E o1 \in OpNames, o2 \in OpNames : Start(Chain(a, o1, b, o2, c))

NextChain == Scripted

SpecChain == InitChain /\ [][NextChain]_vars

\* NEvals evaluations d1 + d2 = whose entries repeat only every 21 evaluations
NEvals == 52

HistoryScript ==
  [j \in 1..(4 * NEvals) |->
     LET i == (j - 1) \div 4
         r == (j - 1) % 4
     IN  CASE r = 0 -> Event("digit", <<DigitChars[(i % 7) + 2]>>)
           [] r = 1 -> Event("operator", <<"add">>)
           [] r = 2 -> Event("digit", <<DigitChars[(i % 3) + 2]>>)
           [] r = 3 -> Event("equals", <<>>)]

InitHistory == Start(HistoryScript)

NextHistory == Scripted

SpecHistory == InitHistory /\ [][NextHistory]_vars

\* a, '.', b, add, c, '.', d, evaluate
SumDigits == {"0", "1", "2", "7"}

Sum(a, b, c, d) ==
  <<Event("digit", <<a>>), Event("dot", <<>>), Event("digit", <<b>>),
    Event("operator", <<"add">>), Event("digit", <<c>>), Event("dot", <<>>),
    Event("digit", <<d>>), Event("equals", <<>>)>>

InitSum ==
  \E a \in SumDigits, b \in SumDigits, c \in SumDigits, d \in SumDigits :
    Start(Sum(a, b, c, d))

NextSum == Scripted

SpecSum == InitSum /\ [][NextSum]_vars

\* ------------------------------------------------------------------------
\* Keyboard and buttons mixed: key presses that have a button, and clicks
\* ------------------------------------------------------------------------
MaxKeys == 4

PressedKeys == {<<"5">>, <<".">>, <<"-">>, KeyEnter, KeyBackspace}

ClickedButtons ==
  {Event("digit", <<"5">>), Event("operator", <<"sub">>), Event("equals", <<>>)}

Press(e) ==
  /\ steps < MaxKeys
  /\ script = <<>>
  /\ Apply(e)
  /\ UNCHANGED <<script, played>>

KeyPress == \E key \in PressedKeys : Press(Event("key", key))

Click == \E e \in ClickedButtons : Press(e)

NextKeys ==
  \/ KeyPress
  \/ Click

SpecKeys == Init /\ [][NextKeys]_vars

\* ------------------------------------------------------------------------
\* Properties
\* ------------------------------------------------------------------------
IsDivide(op) == op \in {"÷", "/"}

\* C1: in every reachable state of every variant the pending operator is
\* set exactly when the previous operand is set.
C1_OperatorIffPrevious ==
  (pendingOperator # NoOp) <=> (previousOperand # Null)

\* an operator press has stored both the operand and the operator
C1_Witness ==
  /\ last.k = "operator"
  /\ pendingOperator # NoOp
  /\ previousOperand # Null

\* C2: an evaluate whose pending operator is divide and whose current operand
\* parses to zero leaves the error sentinel in the current operand and clears
\* the previous operand and the pending operator, in every variant.
C2_DivideByZeroIsError ==
  [][(/\ last'.k = "equals"
      /\ IsDivide(pendingOperator)
      /\ previousOperand # Null
      /\ IsZero(parseFloat(currentOperand)))
     => (/\ currentOperand' = ErrorStr
         /\ previousOperand' = Null
         /\ pendingOperator' = NoOp)]_vars

\* C3: no handler and no render ever faults.
C3_NeverFaults == fault = "none"

\* optional leading '-', then digits with at most one '.'
IsDecimalLiteral(s) ==
  LET body == IF s # <<>> /\ s[1] = "-" THEN Tail(s) ELSE s
  IN  /\ \A i \in 1..Len(body) : IsDigit(body[i]) \/ body[i] = "."
      /\ Cardinality({i \in 1..Len(body) : body[i] = "."}) <= 1

\* C4: the current operand is always a decimal literal or the error sentinel.
C4_OperandIsLiteralOrError ==
  currentOperand = ErrorStr \/ IsDecimalLiteral(currentOperand)

\* the arithmetic x op y
ApplyOp(name, x, y) ==
  CASE name = "add" -> NumAdd(x, y)
    [] name = "sub" -> NumSub(x, y)
    [] name = "mul" -> NumMul(x, y)
    [] name = "div" -> NumDiv(x, y)

\* x rounded to n decimal places
Rounded(x, n) == parseFloat(toFixed(x, n))

\* the text a variant shows for the result x of an evaluation
ResultText(v, x) == NumToString(Rounded(x, IF v = "B" THEN 10 ELSE 8))

\* the scripted input, handled and still to come
Input == played \o script

ChainA == parseFloat(Input[1].a)
ChainOp1 == Input[2].a[1]
ChainB == parseFloat(Input[3].a)
ChainOp2 == Input[4].a[1]
ChainC == parseFloat(Input[5].a)
ChainFirst == ApplyOp(ChainOp1, ChainA, ChainB)
ChainFirstDividesByZero == ChainOp1 = "div" /\ IsZero(ChainB)
ChainDividesByZero ==
  ChainFirstDividesByZero \/ (ChainOp2 = "div" /\ IsZero(ChainC))

\* the number in the previous operand
PreviousValue ==
  IF previousOperand.t = "num" THEN previousOperand.v
  ELSE parseFloat(previousOperand.v)

\* the value the second operator press leaves in the previous operand:
\* rounded to 8 places in A, exact in B and C
FoldValue(v, x) == IF v = "A" THEN Rounded(x, 8) ELSE x

\* the text the second operator press leaves in the current operand:
\* rounded to 8 places in A and C, exact in B
FoldText(v, x) == NumToString(IF v = "B" THEN x ELSE Rounded(x, 8))

\* C5 (as stated): after a op1 b op2 c = without a division by zero, the
\* current operand is the text of (a op1 b) op2 c.
C5_ChainIsExact ==
  (Len(played) = 6 /\ ~ChainDividesByZero)
    => currentOperand
         = ResultText(variant, ApplyOp(ChainOp2, ChainFirst, ChainC))

\* C5 (amended): the second operator press folds a op1 b into the previous
\* operand (rounded to 8 places in A, exact in B and C) and into the current
\* operand, and the evaluate then gives the text of (that value) op2 c.
C5_ChainFoldsLeftToRight ==
  /\ (Len(played) = 4 /\ ~ChainFirstDividesByZero)
       => /\ previousOperand # Null
          /\ NumToString(PreviousValue)
               = NumToString(FoldValue(variant, ChainFirst))
          /\ currentOperand = FoldText(variant, ChainFirst)
  /\ (Len(played) = 6 /\ ~ChainDividesByZero)
       => currentOperand
            = ResultText(variant,
                         ApplyOp(ChainOp2, FoldValue(variant, ChainFirst), ChainC))

\* 2 + 2 + 2 = has given 6
C5_Witness ==
  /\ played = Chain("2", "add", "2", "add", "2")
  /\ currentOperand = <<"6">>

HistoryCap(v) ==
  CASE v = "A" -> HistoryCapA
    [] v = "B" -> HistoryCapB
    [] v = "C" -> HistoryCapC

Reverse(s) == [i \in 1..Len(s) |-> s[Len(s) + 1 - i]]

\* C6: the history holds at most cap entries (50 in A, 10 in B and C), newest
\* first: it is the last cap recorded entries, the most recent at the head.
C6_HistoryIsNewestCap ==
  /\ Len(history) <= HistoryCap(variant)
  /\ history = Take(Reverse(log), HistoryCap(variant))

\* more than 50 evaluations in A have left exactly 50 entries
C6_Witness ==
  /\ variant = "A"
  /\ last.k = "equals"
  /\ Len(log) > HistoryCapA
  /\ Len(history) = HistoryCapA

\* C7: backspace while the overwrite flag is set changes nothing, in every
\* variant.
C7_BackspaceWithOverwriteIsNoOp ==
  [][(last'.k = "backspace" /\ overwrite)
     => UNCHANGED <<currentOperand, previousOperand, pendingOperator, overwrite,
                    expression, history>>]_vars

\* C8: in every reachable state clear-all is accepted and gives the initial
\* calculation state, with the history as it was and A's expression empty.
C8_ClearAllResets ==
  /\ fault # "render"
  /\ LET s == Handle(variant, State, Event("clear", <<>>))
     IN  /\ s.cur = InitialState.cur
         /\ s.prev = Null
         /\ s.op = NoOp
         /\ s.ow = FALSE
         /\ s.expr = <<>>
         /\ s.hist = history
         /\ s.fault = "none"

\* C9: evaluate changes nothing when the pending operator or the previous
\* operand is absent, and a second evaluate right after a first changes
\* nothing.
C9_EvaluateIdempotent ==
  [][last'.k = "equals"
     => /\ (pendingOperator = NoOp \/ previousOperand = Null)
             => UNCHANGED <<currentOperand, previousOperand, pendingOperator,
                             overwrite, expression, history, fault>>
        /\ last.k = "equals"
             => UNCHANGED <<currentOperand, previousOperand, pendingOperator,
                             overwrite, expression, history>>]_vars

\* an evaluate right after a recorded evaluation has changed nothing
C9_Witness ==
  /\ last.k = "equals"
  /\ ~changed
  /\ pendingOperator = NoOp
  /\ history # <<>>

DotCount(s) == Cardinality({i \in 1..Len(s) : s[i] = "."})

\* C10: the current operand never holds two decimal points, and a decimal
\* point entered while it holds one and the overwrite flag is clear leaves
\* it unchanged.
C10_OneDecimalPoint ==
  /\ DotCount(currentOperand) <= 1
  /\ (fault # "render" /\ Includes(currentOperand, ".") /\ ~overwrite)
       => Handle(variant, State, Event("dot", <<>>)).cur = currentOperand

\* a decimal point entered into an operand that holds one has changed nothing
C10_Witness ==
  /\ last.k = "dot"
  /\ ~changed
  /\ ~overwrite
  /\ Includes(currentOperand, ".")

\* C11: in A, while the display shows 'Error', a digit d makes the display d
\* and a decimal point makes it "0.", and both clear the overwrite flag.
C11_ErrorIsLeftByDigitOrDot ==
  [][(variant = "A" /\ currentOperand = ErrorStr /\ last'.k \in {"digit", "dot"})
     => /\ currentOperand' = (IF last'.k = "digit" THEN last'.a ELSE <<"0", ".">>)
        /\ overwrite' = FALSE]_vars

\* C12: an operator chosen while an operator is pending and the overwrite
\* flag is set replaces the pending operator and changes nothing else.
C12_OperatorIsReplacedWithoutFold ==
  [][(last'.k = "operator" /\ pendingOperator # NoOp /\ overwrite)
     => /\ pendingOperator' = OpSymbol(variant, last'.a[1])
        /\ UNCHANGED <<currentOperand, previousOperand, history>>]_vars

\* C13: while the overwrite flag is set, a digit d makes the current operand
\* d and a decimal point makes it "0.", and both clear the flag.
C13_OverwriteReplacesOperand ==
  [][(overwrite /\ last'.k \in {"digit", "dot"})
     => /\ currentOperand' = (IF last'.k = "digit" THEN last'.a ELSE <<"0", ".">>)
        /\ overwrite' = FALSE]_vars

\* the line above the display: {expression} in A, the previousOperand line
\* of B, the firstOperand line of C
PendingLine ==
  CASE variant = "A" -> expression
    [] variant = "B" ->
         IF previousOperand # Null /\ previousOperand.v # <<>>
         THEN B_formatOperand(previousOperand.v) \o Sp \o <<pendingOperator>>
         ELSE <<>>
    [] variant = "C" ->
         IF previousOperand # Null /\ pendingOperator \notin {NoOp, ""}
         THEN NumToString(previousOperand.v) \o Sp \o <<pendingOperator>>
         ELSE <<>>

\* the text a variant gives the previous operand on that line
PreviousText ==
  CASE variant = "A" -> previousOperand.v
    [] variant = "B" -> B_formatOperand(previousOperand.v)
    [] variant = "C" -> NumToString(previousOperand.v)

\* C14: the line of the previous operand and the pending operator is empty
\* exactly when no operator is pending, and shows both otherwise.
C14_PendingLineShowsPending ==
  fault # "render"
    => IF pendingOperator = NoOp THEN PendingLine = <<>>
       ELSE /\ previousOperand # Null
            /\ PendingLine = PreviousText \o Sp \o <<pendingOperator>>

\* the keys the keyboard maps to operations
MappedKeys ==
  {<<DigitChars[i]>> : i \in 1..10}
    \cup {<<".">>, KeyEnter, <<"=">>, KeyBackspace, KeyEscape,
          <<"+">>, <<"-">>, <<"*">>, <<"/">>}

\* C15: a keydown of a key outside the mapped keys changes nothing.
C15_UnmappedKeysAreIgnored ==
  [][(last'.k = "key" /\ last'.a \notin MappedKeys)
     => UNCHANGED <<currentOperand, previousOperand, pendingOperator, overwrite,
                    history>>]_vars

\* C16: in A, while the display shows 'Error', operator, evaluate, backspace,
\* percent and sign toggle change nothing, and the display stays 'Error'
\* until a digit, a decimal point or clear-all.
C16_ErrorIgnoresArithmetic ==
  [][(variant = "A" /\ currentOperand = ErrorStr)
     => /\ last'.k \in {"operator", "equals", "backspace", "percent", "sign"}
             => UNCHANGED <<currentOperand, previousOperand, pendingOperator,
                             overwrite, history>>
        /\ last'.k \notin {"digit", "dot", "clear"}
             => currentOperand' = ErrorStr]_vars

\* in A, percent on 'Error' has changed nothing
C16_Witness ==
  /\ variant = "A"
  /\ currentOperand = ErrorStr
  /\ last.k = "percent"
  /\ ~changed

StripCommas(s) == SelectSeq(s, LAMBDA c : c # ",")

\* C17: in B, formatOperand changes an operand shown by the component only
\* by the commas it puts into the integer part.
C17_FormatOnlyAddsCommas ==
  (variant = "B" /\ fault = "none")
    => /\ StripCommas(B_formatOperand(currentOperand)) = currentOperand
       /\ (previousOperand # Null /\ previousOperand.v # <<>>)
            => StripCommas(B_formatOperand(previousOperand.v)) = previousOperand.v

\* C18: history-clear empties the history and changes nothing else.
C18_HistoryClearOnlyClearsHistory ==
  [][last'.k = "historyClear"
     => /\ history' = <<>>
        /\ UNCHANGED <<currentOperand, previousOperand, pendingOperator,
                       overwrite, expression>>]_vars

\* a non-empty history has been cleared while an operator is pending
C18_Witness ==
  /\ last.k = "historyClear"
  /\ changed
  /\ history = <<>>
  /\ pendingOperator # NoOp

\* the sum a.b + c.d of the scripted input in tenths
SumTenths ==
  10 * DigitVal(Input[1].a[1]) + DigitVal(Input[3].a[1])
    + 10 * DigitVal(Input[5].a[1]) + DigitVal(Input[7].a[1])

\* the decimal text of n tenths
TenthsText(n) ==
  NatChars(n \div 10)
    \o (IF n % 10 = 0 THEN <<>> ELSE <<".", DigitChars[(n % 10) + 1]>>)

\* C19: after a, '.', b, add, c, '.', d, evaluate the current operand is the
\* decimal text of the sum a.b + c.d, so "0.3" after 0.1 + 0.2 and not the
\* text "0.30000000000000004" of the unrounded double.
C19_SumIsRounded ==
  Len(played) = 8 => currentOperand = TenthsText(SumTenths)

\* 0 . 1 + 0 . 2 = has given 0.3
C19_Witness ==
  /\ played = Sum("0", "1", "0", "2")
  /\ currentOperand = <<"0", ".", "3">>

\* C20: the history changes only by an evaluate (or a history-clear), never
\* by choosing an operator.
C20_HistoryGrowsOnlyOnEvaluate ==
  [][history' # history => last'.k \in {"equals", "historyClear"}]_vars

\* the value of previousOperand pendingOperator currentOperand
PendingResult ==
  CASE pendingOperator = "+" -> NumAdd(PreviousValue, parseFloat(currentOperand))
    [] pendingOperator = "-" -> NumSub(PreviousValue, parseFloat(currentOperand))
    [] pendingOperator \in {"×", "*"} ->
         NumMul(PreviousValue, parseFloat(currentOperand))
    [] pendingOperator \in {"÷", "/"} ->
         NumDiv(PreviousValue, parseFloat(currentOperand))

\* an evaluate is about to run with an operator pending and a right operand
\* that does not divide by zero
EvaluatesPending ==
  /\ last'.k = "equals"
  /\ pendingOperator # NoOp
  /\ previousOperand # Null
  /\ ~(IsDivide(pendingOperator) /\ IsZero(parseFloat(currentOperand)))

\* the part of a history entry after its '='
ResultPart(v, entry) ==
  IF v = "A" THEN entry.result
  ELSE Drop(entry, 1 + CHOOSE i \in 1..Len(entry) : entry[i] = "=")

\* the evaluate has cleared the pending operation, set the overwrite flag,
\* left the result text and put one new entry at the head of the history
Evaluated ==
  /\ previousOperand' = Null
  /\ pendingOperator' = NoOp
  /\ overwrite'
  /\ currentOperand' = ResultText(variant, PendingResult)
  /\ history' # <<>>
  /\ history' = Take(<<Head(history')>> \o history, HistoryCap(variant))

HistoryText(v, operand) == IF v = "B" THEN B_formatOperand(operand) ELSE operand

C22_PercentChangesOnlyCurrent ==
  [][/\ last'.k \in {"percent", "sign"}
          => UNCHANGED <<previousOperand, pendingOperator, overwrite, history>>
     /\ (last.k \in {"percent", "sign"} /\ overwrite /\ last'.k = "digit")
          => (currentOperand' = last'.a /\ ~overwrite')]_vars

\* percent right after an operator has changed the current operand and left
\* the overwrite flag set
C22_Witness ==
  /\ variant \in {"A", "B"}
  /\ last.k = "percent"
  /\ changed
  /\ overwrite
  /\ pendingOperator # NoOp
  /\ currentOperand = <<"0", ".", "0", "5">>

\* the click on the on-screen button that a key stands for
Button(key) ==
  CASE Len(key) = 1 /\ IsDigit(key[1]) -> Event("digit", key)
    [] key = <<".">> -> Event("dot", <<>>)
    [] key \in {KeyEnter, <<"=">>} -> Event("equals", <<>>)
    [] key = KeyBackspace -> Event("backspace", <<>>)
    [] key = KeyEscape -> Event("clear", <<>>)
    [] key = <<"+">> -> Event("operator", <<"add">>)
    [] key = <<"-">> -> Event("operator", <<"sub">>)
    [] key = <<"*">> -> Event("operator", <<"mul">>)
    [] key = <<"/">> -> Event("operator", <<"div">>)

\* the state a click on the button of the key would leave
Clicked(key) == Rendered(variant, Handle(variant, State, Button(key)))

\* C23: while the component is mounted, the registered keydown listener
\* closes over the latest values of the current operand, the previous
\* operand, the pending operator and the overwrite flag, and a key press
\* leaves the state that a click on its button would leave.
C23_KeysSeeLatestState ==
  /\ [](fault # "render" => listener = Closure(State))
  /\ [][(last'.k = "key" /\ last'.a \in PressedKeys)
        => /\ <<currentOperand', previousOperand', pendingOperator',
                overwrite', expression', history'>> = Cells(Clicked(last'.a))
           /\ fault' = Clicked(last'.a).fault]_vars

\* in A the key 5 after 5 and an operator has changed the overwrite flag
\* alone, and the listener closes over the new flag
C23_Witness ==
  /\ variant = "A"
  /\ last = Event("key", <<"5">>)
  /\ changed
  /\ currentOperand = <<"5">>
  /\ previousOperand = StrVal(<<"5">>)
  /\ ~overwrite
  /\ ~listener.ow

====
